---- MODULE Spec2Model ----
\* Model of whisper_server.py: a FastAPI service with a /health probe and a
\* /transcribe/{video_id} handler that downloads a video's audio into a
\* temporary directory, writes it to a temporary file, runs the process-wide
\* WhisperModel over that file and returns the segments.
\*
\* Every handler is an `async def` executed on uvicorn's single event loop;
\* the only await (line 56) is on a coroutine that never suspends, so a
\* handler keeps the loop from its first line to its return.  The handler's
\* statements are separate steps here so that the intermediate file-system
\* states are visible; `running` is the task that holds the event loop.
EXTENDS Integers, Sequences, FiniteSets, TLC

\* ---------------------------------------------------------------- bounds
NumReq == 2
MaxHealth == 1

Req == 1..NumReq
None == 0
\* the task of a /health probe, distinct from every transcribe request
HealthTask == NumReq + 1

\* ------------------------------------------------- the external world
\* Identifiers a client may send, and the audio track the remote site holds
\* for each (a sequence of one-second samples; "sil" is silence).
VideoIds == {"abc123", "xyz", "bad-id"}

RemoteAudio(v) ==
    IF v = "abc123" THEN <<"sil", "sil", "sil">>
    ELSE IF v = "xyz" THEN <<"hola", "sil", "mundo">>
    ELSE <<>>

\* What one run of ydl.download can do (lines 36-37).
DownloadOutcomes(v) ==
    IF RemoteAudio(v) = <<>>
    THEN {"unavailable"}
    ELSE {"ok", "network", "codec", "misnamed"}

\* The recognition capability (faster_whisper), a function of the bytes of
\* the file it is given: one segment per non-silent sample.
RECURSIVE SegmentsFrom(_, _)
SegmentsFrom(audio, i) ==
    IF i > Len(audio) THEN <<>>
    ELSE IF audio[i] = "sil" THEN SegmentsFrom(audio, i + 1)
    ELSE <<[start |-> i - 1, end |-> i, text |-> audio[i]]>>
             \o SegmentsFrom(audio, i + 1)

EngineSegments(audio) == SegmentsFrom(audio, 1)

EngineLanguage(audio) ==
    IF \E i \in 1..Len(audio) : audio[i] \in {"hola", "mundo"} THEN "es" ELSE "en"

\* ------------------------------------------------------------ variables
VARIABLES
    pc,          \* per request: the statement of the handler it is at
    vid,         \* per request: the video_id path parameter
    temp_dir,    \* per request: download_youtube_audio's temp_dir
    audio_data,  \* per request: the bytes read from the wav file
    tmp_name,    \* per request: tmp_file.name
    consumed,    \* per request: segments already taken from the generator
    info,        \* per request: info.language
    result,      \* per request: the list built by the comprehension
    exc,         \* per request: the exception raised, NoExc if none
    response,    \* per request: the HTTP response sent
    fetchCalls,  \* per request: calls of download_youtube_audio
    engineCalls, \* per request: calls of model.transcribe
    dirs,        \* temporary directories on disk: name -> owner, files
    tmpFiles,    \* NamedTemporaryFile files on disk: name -> owner, data
    running,     \* the request whose handler holds the event loop, or None
    healthResp   \* the responses given to the /health probes

locals == <<vid, temp_dir, audio_data, tmp_name, consumed, info, result, exc>>
calls == <<fetchCalls, engineCalls>>
disk == <<dirs, tmpFiles>>
vars == <<pc, locals, response, calls, disk, running, healthResp>>

\* An exception: the statement that raised it, its original text, and str(e)
\* of the exception object now in flight (line 49 replaces it by a new one).
NoExc == [at |-> "", cause |-> <<>>, msg |-> <<>>]
Raised(at, cause) == [at |-> at, cause |-> cause, msg |-> cause]
NoAudio == <<>>
NoResponse == [status |-> 0, body |-> [type |-> "none"]]

\* ---------------------------------------------------------- JSON, HTTP
JObject(fields) == [type |-> "object", val |-> fields]
JArray(items) == [type |-> "array", val |-> items]

\* A value returned by a path operation is serialised as the body of a
\* response with the route's default status code; a tuple becomes an array.
DefaultStatus == 200
HttpResponse(ret) == [status |-> DefaultStatus, body |-> ret]

\* (variant: the probe reports leftover temporary files)
HealthBodyDisk == JObject([status |-> IF DOMAIN tmpFiles = {} THEN "ok" ELSE "degraded"])
\* line 15
HealthBody == JObject([status |-> "ok"])

\* lines 79-82
SuccessBody(segs, lang) == JObject([segments |-> segs, language |-> lang])

\* line 86
ErrorStatus == 500
ErrorReturn(msg) == JArray(<<JObject([error |-> msg]), ErrorStatus>>)

\* line 49
DownloadErrorPrefix == <<"Failed to download YouTube audio: ">>
\* (variant: the message is built without the cause)
WrapDownloadErrorNoCause(cause) == <<"Failed to download YouTube audio">>
WrapDownloadError(cause) == DownloadErrorPrefix \o cause

\* ------------------------------------------------------------ the disk
Remove(f, k) == [x \in DOMAIN f \ {k} |-> f[x]]

FreshName(f) ==
    CHOOSE n \in 1..(Cardinality(DOMAIN f) + 1) :
        /\ n \notin DOMAIN f
        /\ \A m \in 1..(n - 1) : m \in DOMAIN f

\* line 40
WavFile(v) == <<v, "wav">>

\* the artifacts ydl.download leaves in the working directory
Artifacts(v, outcome) ==
    CASE outcome = "ok"          -> (WavFile(v) :> RemoteAudio(v))
      [] outcome = "misnamed"    -> (<<"video", "wav">> :> RemoteAudio(v))
      [] outcome = "codec"       -> (<<v, "webm">> :> RemoteAudio(v))
      [] outcome = "network"     -> (<<v, "part">> :> SubSeq(RemoteAudio(v), 1, 1))
      [] outcome = "unavailable" -> <<>>

DownloadCause(outcome) ==
    CASE outcome = "network"     -> <<"Network is unreachable">>
      [] outcome = "codec"       -> <<"Postprocessing: audio conversion failed">>
      [] outcome = "unavailable" -> <<"Video unavailable">>
      [] OTHER                   -> <<>>

\* ---------------------------------------------------------- event loop
\* A task may take a step when the loop is idle or is running that task.
\* (variant: handlers run on worker threads and never wait for the loop)
MayStepThreaded(t) == TRUE
\* (variant: a started handler waits for a loop that it occupies itself)
MayStepDeadlock(t) == running = None
MayStep(t) == running \in {None, t}

TypeOK ==
    /\ pc \in [Req -> {"received", "mkdtemp", "download", "readwav", "exitdir",
                       "create", "write", "transcribe", "drain", "unlink",
                       "return", "except", "done"}]
    /\ running \in Req \cup {None}

Init ==
    /\ pc = [r \in Req |-> "received"]
    /\ vid = [r \in Req |-> ""]
    /\ temp_dir = [r \in Req |-> None]
    /\ audio_data = [r \in Req |-> NoAudio]
    /\ tmp_name = [r \in Req |-> None]
    /\ consumed = [r \in Req |-> 0]
    /\ info = [r \in Req |-> ""]
    /\ result = [r \in Req |-> <<>>]
    /\ exc = [r \in Req |-> NoExc]
    /\ response = [r \in Req |-> NoResponse]
    /\ fetchCalls = [r \in Req |-> 0]
    /\ engineCalls = [r \in Req |-> 0]
    /\ dirs = <<>>
    /\ tmpFiles = <<>>
    /\ running = None
    /\ healthResp = <<>>

\* lines 13-15
HealthCheck ==
    /\ MayStep(HealthTask)
    /\ Len(healthResp) < MaxHealth
    /\ healthResp' = Append(healthResp, HttpResponse(HealthBody))
    /\ UNCHANGED <<pc, locals, response, calls, disk, running>>

\* lines 52-56: the handler starts and calls download_youtube_audio
Accept(r) ==
    /\ MayStep(r)
    /\ pc[r] = "received"
    /\ \E v \in VideoIds : vid' = [vid EXCEPT ![r] = v]
    /\ running' = r
    /\ fetchCalls' = [fetchCalls EXCEPT ![r] = @ + 1]
    /\ pc' = [pc EXCEPT ![r] = "mkdtemp"]
    /\ UNCHANGED <<temp_dir, audio_data, tmp_name, consumed, info, result, exc,
                   response, engineCalls, disk, healthResp>>

\* line 30: tempfile.TemporaryDirectory() creates the working directory
MkTempDir(r) ==
    /\ MayStep(r)
    /\ pc[r] = "mkdtemp"
    /\ \/ /\ temp_dir' = [temp_dir EXCEPT ![r] = FreshName(dirs)]
          /\ dirs' = dirs @@ (FreshName(dirs) :> [owner |-> r, files |-> <<>>])
          /\ pc' = [pc EXCEPT ![r] = "download"]
          /\ exc' = exc
       \/ \* the directory cannot be created: lines 48-49 wrap the error
          /\ exc' = [exc EXCEPT ![r] =
                      [Raised("mkdtemp", <<"No space left on device">>)
                          EXCEPT !.msg = WrapDownloadError(@)]]
          /\ pc' = [pc EXCEPT ![r] = "except"]
          /\ UNCHANGED <<temp_dir, dirs>>
    /\ UNCHANGED <<vid, audio_data, tmp_name, consumed, info, result,
                   response, calls, tmpFiles, running, healthResp>>

\* lines 36-37: retrieval and transcoding into the working directory
Download(r) ==
    /\ MayStep(r)
    /\ pc[r] = "download"
    /\ \E o \in DownloadOutcomes(vid[r]) :
          /\ dirs' = [dirs EXCEPT ![temp_dir[r]].files = Artifacts(vid[r], o)]
          /\ IF DownloadCause(o) = <<>>
             THEN /\ pc' = [pc EXCEPT ![r] = "readwav"]
                  /\ exc' = exc
             ELSE /\ pc' = [pc EXCEPT ![r] = "exitdir"]
                  /\ exc' = [exc EXCEPT ![r] = Raised("download", DownloadCause(o))]
    /\ UNCHANGED <<vid, temp_dir, audio_data, tmp_name, consumed, info, result,
                   response, calls, tmpFiles, running, healthResp>>

\* line 44: f.read() returns the whole content of the file
\* (variant: only the first block of the file is read)
ReadBytesFirstBlock(content) == SubSeq(content, 1, 1)
ReadBytes(content) == content

\* lines 40-44: open and read <video_id>.wav
ReadWav(r) ==
    /\ MayStep(r)
    /\ pc[r] = "readwav"
    /\ IF WavFile(vid[r]) \in DOMAIN dirs[temp_dir[r]].files
       THEN /\ audio_data' = [audio_data EXCEPT ![r] =
                                 ReadBytes(dirs[temp_dir[r]].files[WavFile(vid[r])])]
            /\ exc' = exc
       ELSE /\ exc' = [exc EXCEPT ![r] = Raised("readwav", <<"No such file or directory">>)]
            /\ audio_data' = audio_data
    /\ pc' = [pc EXCEPT ![r] = "exitdir"]
    /\ UNCHANGED <<vid, temp_dir, tmp_name, consumed, info, result,
                   response, calls, disk, running, healthResp>>

\* line 30, leaving the with block: the directory and its content are removed
\* (variant: the directory is removed on the success path only)
DirsAfterExitLeaky(r) == IF exc[r] = NoExc THEN Remove(dirs, temp_dir[r]) ELSE dirs
DirsAfterExit(r) == Remove(dirs, temp_dir[r])

\* lines 46, 48-49, 56, 84: the handler goes on with the bytes returned, or
\* the exception raised at line 49 takes it to its except clause
\* (variant: a failed fetch is ignored and the handler goes on)
AfterFetchPcIgnore(r) == "create"
\* (variant: a failed fetch is tried again)
AfterFetchPcRetry(r) == IF exc[r] = NoExc THEN "create" ELSE "mkdtemp"
AfterFetchPc(r) == IF exc[r] = NoExc THEN "create" ELSE "except"

\* lines 30 (exit), 46, 48-49, 56: download_youtube_audio returns the bytes
\* or raises the wrapped error into the handler's try block
ExitDir(r) ==
    /\ MayStep(r)
    /\ pc[r] = "exitdir"
    /\ dirs' = DirsAfterExit(r)
    /\ pc' = [pc EXCEPT ![r] = AfterFetchPc(r)]
    /\ IF exc[r] = NoExc
       THEN exc' = exc
       ELSE exc' = [exc EXCEPT ![r].msg = WrapDownloadError(@)]
    /\ UNCHANGED <<vid, temp_dir, audio_data, tmp_name, consumed, info, result,
                   response, calls, tmpFiles, running, healthResp>>

\* line 60: NamedTemporaryFile(delete=False, suffix='.wav')
CreateTmp(r) ==
    /\ MayStep(r)
    /\ pc[r] = "create"
    /\ \/ /\ tmp_name' = [tmp_name EXCEPT ![r] = FreshName(tmpFiles)]
          /\ tmpFiles' = tmpFiles @@ (FreshName(tmpFiles) :> [owner |-> r, data |-> NoAudio])
          /\ pc' = [pc EXCEPT ![r] = "write"]
          /\ exc' = exc
       \/ /\ exc' = [exc EXCEPT ![r] = Raised("create", <<"Too many open files">>)]
          /\ pc' = [pc EXCEPT ![r] = "except"]
          /\ UNCHANGED <<tmp_name, tmpFiles>>
    /\ UNCHANGED <<vid, temp_dir, audio_data, consumed, info, result,
                   response, calls, dirs, running, healthResp>>

\* lines 61-62: write and flush; a failed write leaves what was written
WriteTmp(r) ==
    /\ MayStep(r)
    /\ pc[r] = "write"
    /\ \/ /\ tmpFiles' = [tmpFiles EXCEPT ![tmp_name[r]].data = audio_data[r]]
          /\ pc' = [pc EXCEPT ![r] = "transcribe"]
          /\ exc' = exc
       \/ \E n \in 0..(Len(audio_data[r]) - 1) :
          /\ tmpFiles' = [tmpFiles EXCEPT ![tmp_name[r]].data = SubSeq(audio_data[r], 1, n)]
          /\ exc' = [exc EXCEPT ![r] = Raised("write", <<"No space left on device">>)]
          /\ pc' = [pc EXCEPT ![r] = "except"]
    /\ UNCHANGED <<vid, temp_dir, audio_data, tmp_name, consumed, info, result,
                   response, calls, dirs, running, healthResp>>

\* line 66: the path handed to the engine is tmp_file.name
\* (variant: the engine is handed the first temporary file found on disk)
EnginePathStale(r) == CHOOSE n \in DOMAIN tmpFiles : \A m \in DOMAIN tmpFiles : n <= m
EnginePath(r) == tmp_name[r]

\* lines 66-76: the comprehension consumes the generator before the unlink
\* (variant: the file is unlinked as soon as model.transcribe has returned)
AfterTranscribePcUnlink == "unlink"
AfterTranscribePc == "drain"

\* line 66: model.transcribe(tmp_file.name, beam_size=5) opens the file,
\* detects the language and returns a lazy generator of segments
Transcribe(r) ==
    /\ MayStep(r)
    /\ pc[r] = "transcribe"
    /\ engineCalls' = [engineCalls EXCEPT ![r] = @ + 1]
    /\ \/ /\ EnginePath(r) \in DOMAIN tmpFiles
          /\ info' = [info EXCEPT ![r] = EngineLanguage(tmpFiles[EnginePath(r)].data)]
          /\ consumed' = [consumed EXCEPT ![r] = 0]
          /\ pc' = [pc EXCEPT ![r] = AfterTranscribePc]
          /\ exc' = exc
       \/ /\ exc' = [exc EXCEPT ![r] = Raised("transcribe",
                        IF EnginePath(r) \in DOMAIN tmpFiles
                        THEN <<"Invalid data found when processing input">>
                        ELSE <<"No such file or directory">>)]
          /\ pc' = [pc EXCEPT ![r] = "except"]
          /\ UNCHANGED <<info, consumed>>
    /\ UNCHANGED <<vid, temp_dir, audio_data, tmp_name, result,
                   response, fetchCalls, disk, running, healthResp>>

\* lines 69-73: where control goes when the generator raises
\* (variant: the error is swallowed and the segments so far are kept)
DrainFailurePcSwallow == "unlink"
\* (variant: the engine is called again when the generator raises)
DrainFailurePcRetry == "transcribe"
DrainFailurePc == "except"

\* lines 69-73: the dict built from one segment object
\* (variant: start and end are exchanged)
FormatSegmentSwapped(segment) ==
    [start |-> segment.end, end |-> segment.start, text |-> segment.text]
FormatSegment(segment) ==
    [start |-> segment.start, end |-> segment.end, text |-> segment.text]

\* lines 69-73: one turn of the comprehension: the generator decodes the next
\* segment from the file, raises, or is exhausted
Drain(r) ==
    /\ MayStep(r)
    /\ pc[r] = "drain"
    /\ IF EnginePath(r) \notin DOMAIN tmpFiles
       THEN /\ exc' = [exc EXCEPT ![r] = Raised("drain", <<"No such file or directory">>)]
            /\ pc' = [pc EXCEPT ![r] = DrainFailurePc]
            /\ UNCHANGED <<consumed, result>>
       ELSE LET segs == EngineSegments(tmpFiles[EnginePath(r)].data) IN
            IF consumed[r] < Len(segs)
            THEN \/ /\ consumed' = [consumed EXCEPT ![r] = @ + 1]
                    /\ result' = [result EXCEPT ![r] =
                          Append(@, FormatSegment(segs[consumed[r] + 1]))]
                    /\ UNCHANGED <<pc, exc>>
                 \/ /\ exc' = [exc EXCEPT ![r] = Raised("drain", <<"Decoding failed">>)]
                    /\ pc' = [pc EXCEPT ![r] = DrainFailurePc]
                    /\ UNCHANGED <<consumed, result>>
            ELSE /\ pc' = [pc EXCEPT ![r] = "unlink"]
                 /\ UNCHANGED <<consumed, result, exc>>
    /\ UNCHANGED <<vid, temp_dir, audio_data, tmp_name, info,
                   response, calls, disk, running, healthResp>>

\* line 76: os.unlink(tmp_file.name)
Unlink(r) ==
    /\ MayStep(r)
    /\ pc[r] = "unlink"
    /\ tmpFiles' = Remove(tmpFiles, tmp_name[r])
    /\ pc' = [pc EXCEPT ![r] = "return"]
    /\ UNCHANGED <<locals, response, calls, dirs, running, healthResp>>

\* lines 79-82: the with block closes the file and the handler returns
Return(r) ==
    /\ MayStep(r)
    /\ pc[r] = "return"
    /\ response' = [response EXCEPT ![r] = HttpResponse(SuccessBody(result[r], info[r]))]
    /\ pc' = [pc EXCEPT ![r] = "done"]
    /\ running' = None
    /\ UNCHANGED <<locals, calls, disk, healthResp>>

\* lines 84-86: the with block (if entered) closes the file, which stays on
\* disk (delete=False); the handler returns the tuple ({"error": str(e)}, 500)
Except(r) ==
    /\ MayStep(r)
    /\ pc[r] = "except"
    /\ response' = [response EXCEPT ![r] = HttpResponse(ErrorReturn(exc[r].msg))]
    /\ pc' = [pc EXCEPT ![r] = "done"]
    /\ running' = None
    /\ UNCHANGED <<locals, calls, disk, healthResp>>

Next ==
    \/ HealthCheck
    \/ \E r \in Req : Accept(r)
    \/ \E r \in Req : MkTempDir(r)
    \/ \E r \in Req : Download(r)
    \/ \E r \in Req : ReadWav(r)
    \/ \E r \in Req : ExitDir(r)
    \/ \E r \in Req : CreateTmp(r)
    \/ \E r \in Req : WriteTmp(r)
    \/ \E r \in Req : Transcribe(r)
    \/ \E r \in Req : Drain(r)
    \/ \E r \in Req : Unlink(r)
    \/ \E r \in Req : Return(r)
    \/ \E r \in Req : Except(r)

Spec == Init /\ [][Next]_vars

\* The steps of a handler that has started.  The handler is a coroutine that
\* the event loop runs without interruption, and every call it makes is
\* assumed to return or raise, so each of its steps is eventually taken.
Step(r) ==
    \/ MkTempDir(r) \/ Download(r) \/ ReadWav(r) \/ ExitDir(r)
    \/ CreateTmp(r) \/ WriteTmp(r) \/ Transcribe(r) \/ Drain(r)
    \/ Unlink(r) \/ Return(r) \/ Except(r)

FairSpec == Spec /\ \A r \in Req : WF_vars(Step(r))

\* ------------------------------------------------------------ vocabulary
\* The phase of a request (the per-request state machine of the handler).
Phase(r) ==
    CASE pc[r] = "received" -> "Received"
      [] pc[r] \in {"mkdtemp", "download", "readwav", "exitdir"} -> "Fetching"
      [] pc[r] \in {"create", "write"} -> "Fetched"
      [] pc[r] \in {"transcribe", "drain", "unlink", "return"} -> "Transcribing"
      [] pc[r] = "except" -> "Failed"
      [] pc[r] = "done" -> IF exc[r] = NoExc THEN "Completed" ELSE "Failed"

Responded(r) == pc[r] = "done"
FetchSteps == {"mkdtemp", "download", "readwav"}
FetchFailed(r) == exc[r].at \in FetchSteps
\* the temporary audio files / working directories a request created
OwnTmpFiles(r) == {n \in DOMAIN tmpFiles : tmpFiles[n].owner = r}
OwnDirs(r) == {d \in DOMAIN dirs : dirs[d].owner = r}
IsErrorReport(resp, msg) ==
    /\ resp.body.type = "array"
    /\ resp.body.val[1].type = "object"
    /\ resp.body.val[1].val = [error |-> msg]
IsResult(resp) ==
    /\ resp.body.type = "object"
    /\ DOMAIN resp.body.val = {"segments", "language"}

\* ---------------------------------------------------------------- claims

\* C1: once a transcribe request has been answered, successfully or not, no
\* temporary audio file that the request created is left on disk.
C1_NoTempFileAfterResponse ==
    \A r \in Req : Responded(r) => OwnTmpFiles(r) = {}

\* C2: a request whose audio fetch failed never invokes the engine, never
\* creates a temporary audio file, and is answered with an error report whose
\* text is the acquisition-failure prefix followed by the cause of the failure.
C2_FetchFailureReported ==
    \A r \in Req : FetchFailed(r) =>
        /\ engineCalls[r] = 0
        /\ tmp_name[r] = None
        /\ OwnTmpFiles(r) = {}
        /\ pc[r] \in {"exitdir", "except", "done"}
        /\ Responded(r) =>
              /\ IsErrorReport(response[r], <<"Failed to download YouTube audio: ">> \o exc[r].cause)
              /\ exc[r].cause # <<>>

C2_Witness ==
    \E r, q \in Req :
        /\ Responded(r) /\ exc[r].at = "download" /\ exc[r].cause = <<"Video unavailable">>
        /\ Responded(q) /\ exc[q].at = "readwav"

\* C3: a request owns at most one temporary audio file, the file exists only
\* after the request's fetch has succeeded, and it is gone before the
\* request's result or error is produced.
C3_TransientFileLifetime ==
    \A r \in Req :
        /\ Cardinality(OwnTmpFiles(r)) <= 1
        /\ OwnTmpFiles(r) # {} => Phase(r) \notin {"Received", "Fetching"} /\ ~FetchFailed(r)
        /\ Responded(r) => OwnTmpFiles(r) = {}

\* C4: at no time are two requests inside the inference section, which lasts
\* from the call of model.transcribe until the segment generator is drained.
InInference(r) == pc[r] = "drain"
C4_InferenceSerialized ==
    Cardinality({r \in Req : InInference(r)}) <= 1

C4_Witness ==
    \E r, q \in Req :
        /\ r # q
        /\ InInference(r) /\ consumed[r] > 0
        /\ pc[q] = "received"

\* C5: while a request is fetching or transcribing, another transcribe request
\* and a health probe can be taken up by the server.
C5_OthersProgress ==
    \A r \in Req : Phase(r) \in {"Fetching", "Transcribing"} =>
        /\ \A q \in Req \ {r} : pc[q] = "received" => ENABLED Accept(q)
        /\ Len(healthResp) < MaxHealth => ENABLED HealthCheck

\* C6: a successful response holds exactly the segments and the language of
\* the request's own audio, as if the request had been the only one.
AloneResult(v) ==
    [segments |-> EngineSegments(RemoteAudio(v)), language |-> EngineLanguage(RemoteAudio(v))]
C6_NoCrossRequestData ==
    \A r \in Req : Responded(r) /\ IsResult(response[r]) =>
        response[r].body.val = AloneResult(vid[r])

C6_Witness ==
    \E r, q \in Req :
        /\ Responded(r) /\ IsResult(response[r]) /\ vid[r] = "xyz"
        /\ Responded(q) /\ IsResult(response[q]) /\ vid[q] = "abc123"

\* C7: a failed request is answered with a non-2xx status chosen by the kind
\* of failure (502 or 503 for acquisition, 500 otherwise) and a body that is
\* the object {"error": text}.
C7_ErrorStatusMapped ==
    \A r \in Req : Responded(r) /\ exc[r] # NoExc =>
        /\ response[r].status \notin 200..299
        /\ response[r].status \in (IF FetchFailed(r) THEN {502, 503} ELSE {500})
        /\ response[r].body.type = "object"
        /\ DOMAIN response[r].body.val = {"error"}

\* C8: every exception raised while handling a request ends in an error
\* report, and a response with segments and language is given only when the
\* fetch, the write, the engine call and the whole drain succeeded.
C8_NoPartialResult ==
    \A r \in Req : Responded(r) =>
        IF exc[r] # NoExc
        THEN IsErrorReport(response[r], exc[r].msg)
        ELSE /\ IsResult(response[r])
             /\ audio_data[r] # NoAudio
             /\ engineCalls[r] = 1
             /\ consumed[r] = Len(EngineSegments(audio_data[r]))
             /\ Len(response[r].body.val.segments) = consumed[r]

C8_Witness ==
    \E r, q \in Req :
        /\ Responded(r) /\ exc[r].at = "drain" /\ consumed[r] > 0
        /\ Responded(q) /\ exc[q] = NoExc /\ consumed[q] > 0

\* C9: a health probe is answered {"status": "ok"} whatever the state of the
\* requests and of the disk, and it changes nothing else.
C9_HealthFrame ==
    [][healthResp' # healthResp =>
          /\ healthResp' = Append(healthResp,
                [status |-> 200, body |-> [type |-> "object", val |-> [status |-> "ok"]]])
          /\ UNCHANGED <<pc, locals, response, calls, disk, running>>]_vars

C9_Witness ==
    /\ Len(healthResp) > 0
    /\ \E r \in Req : Responded(r) /\ exc[r] # NoExc /\ OwnTmpFiles(r) # {}
    /\ \E r \in Req : Responded(r) /\ exc[r] = NoExc

\* C10: once download_youtube_audio has returned or raised, its working
\* directory and everything in it is gone.
C10_WorkDirRemoved ==
    \A r \in Req : pc[r] \notin {"download", "readwav", "exitdir"} => OwnDirs(r) = {}

C10_Witness ==
    \E r, q \in Req :
        /\ pc[r] = "except" /\ exc[r].at = "download"
        /\ exc[r].cause = <<"Network is unreachable">>
        /\ temp_dir[r] # None /\ dirs = <<>>
        /\ Responded(q) /\ exc[q] = NoExc

\* C11 (as stated): a request changes phase only along Received -> Fetching ->
\* Fetched -> Transcribing -> Completed, or into Failed from Fetching or from
\* Transcribing; the engine is called only after a successful fetch, and a
\* completed request has called the engine.
ClaimedTransitions ==
    { <<"Received", "Fetching">>, <<"Fetching", "Fetched">>,
      <<"Fetched", "Transcribing">>, <<"Transcribing", "Completed">>,
      <<"Fetching", "Failed">>, <<"Transcribing", "Failed">> }
C11_Original ==
    [][\A r \in Req :
          /\ Phase(r)' # Phase(r) => <<Phase(r), Phase(r)'>> \in ClaimedTransitions
          /\ engineCalls'[r] > 0 => audio_data'[r] # NoAudio /\ ~FetchFailed(r)'
          /\ Phase(r)' = "Completed" => engineCalls'[r] = 1]_vars

\* C11 (amended): as above, but Failed is also entered from Fetched, when the
\* temporary file cannot be created or written.
C11_PhaseOrder ==
    [][\A r \in Req :
          /\ Phase(r)' # Phase(r) =>
                <<Phase(r), Phase(r)'>> \in ClaimedTransitions \cup {<<"Fetched", "Failed">>}
          /\ engineCalls'[r] > 0 => audio_data'[r] # NoAudio /\ ~FetchFailed(r)'
          /\ Phase(r)' = "Completed" => engineCalls'[r] = 1]_vars

C11_Witness ==
    \E r, q \in Req :
        /\ Phase(r) = "Failed" /\ exc[r].at = "write" /\ engineCalls[r] = 0
        /\ Phase(q) = "Completed"

\* C12: the segment generator is consumed to its end while the temporary file
\* it reads still exists; the file is deleted after the last segment was
\* taken and before the result is returned.
C12_DrainedBeforeUnlink ==
    \A r \in Req :
        /\ pc[r] = "drain" => tmp_name[r] \in OwnTmpFiles(r)
        /\ pc[r] \in {"unlink", "return"} =>
              /\ consumed[r] = Len(EngineSegments(audio_data[r]))
              /\ Len(result[r]) = consumed[r]
        /\ pc[r] = "unlink" => tmp_name[r] \in OwnTmpFiles(r)
        /\ pc[r] = "return" \/ (Responded(r) /\ exc[r] = NoExc) => OwnTmpFiles(r) = {}

C12_Witness ==
    \E r \in Req :
        /\ pc[r] = "return" /\ consumed[r] = 2 /\ tmp_name[r] \notin DOMAIN tmpFiles

\* C13: a successful response lists the segments the engine emitted for the
\* audio, in order and unchanged, with the language the engine detected;
\* audio without speech gives a successful response with no segments.
C13_SegmentsUnchanged ==
    \A r \in Req : Responded(r) /\ exc[r] = NoExc =>
        LET emitted == EngineSegments(audio_data[r])
            body == response[r].body.val
        IN  /\ IsResult(response[r])
            /\ Len(body.segments) = Len(emitted)
            /\ \A i \in 1..Len(emitted) :
                  /\ body.segments[i].start = emitted[i].start
                  /\ body.segments[i].end = emitted[i].end
                  /\ body.segments[i].text = emitted[i].text
            /\ body.language = EngineLanguage(audio_data[r])
            /\ emitted = <<>> => body.segments = <<>>

C13_Witness ==
    \E r, q \in Req :
        /\ Responded(r) /\ exc[r] = NoExc /\ vid[r] = "abc123"
        /\ response[r].body.val.segments = <<>>
        /\ Responded(q) /\ exc[q] = NoExc /\ Len(response[q].body.val.segments) = 2

\* C14: nothing is retried: a request calls the fetch at most once and the
\* engine at most once, and once a step of the request has failed the request
\* makes no further call, creates no directory and no file, and only unwinds
\* to its error response.
C14_NoRetry ==
    [][\A r \in Req :
          /\ fetchCalls'[r] <= 1
          /\ engineCalls'[r] <= 1
          /\ exc[r] # NoExc =>
                /\ fetchCalls'[r] = fetchCalls[r]
                /\ engineCalls'[r] = engineCalls[r]
                /\ OwnTmpFiles(r)' \subseteq OwnTmpFiles(r)
                /\ OwnDirs(r)' \subseteq OwnDirs(r)
                /\ tmp_name'[r] = tmp_name[r]
                /\ result'[r] = result[r]
                /\ exc'[r].at = exc[r].at
                /\ pc'[r] \in {"exitdir", "except", "done"}]_vars

C14_Witness ==
    \E r, q \in Req :
        /\ Responded(r) /\ exc[r].at = "transcribe" /\ engineCalls[r] = 1 /\ fetchCalls[r] = 1
        /\ Responded(q) /\ exc[q].at = "download" /\ engineCalls[q] = 0 /\ fetchCalls[q] = 1

\* C15: under the fairness of FairSpec, every request that was accepted is
\* eventually answered, as Completed or Failed, and its response, once given,
\* is never replaced.
C15_EventuallyAnswered ==
    /\ \A r \in Req : (pc[r] # "received") ~> (Phase(r) \in {"Completed", "Failed"} /\ Responded(r))
    /\ [][\A r \in Req :
             /\ Responded(r) => Responded(r)' /\ response'[r] = response[r]
             /\ response'[r] # response[r] => ~Responded(r) /\ Responded(r)']_vars

C15_Witness ==
    \E r, q \in Req :
        /\ Responded(r) /\ Phase(r) = "Completed" /\ response[r].status = 200
        /\ Responded(q) /\ Phase(q) = "Failed" /\ exc[q].at = "drain"

\* C16: requests are handled one at a time: at most one request is in
\* Fetching, Fetched or Transcribing, and at most one working directory and
\* at most one temporary audio file exist on the whole disk.
InFlight(r) == Phase(r) \in {"Fetching", "Fetched", "Transcribing"}
C16_OneAtATime ==
    /\ Cardinality({r \in Req : InFlight(r)}) <= 1
    /\ Cardinality(DOMAIN dirs) <= 1
    /\ Cardinality(DOMAIN tmpFiles) <= 1

\* C17: a request's working directory and its temporary audio file never
\* exist together, the bytes handed to the handler are the whole content of
\* <video_id>.wav, and the bytes written to the temporary file are those bytes.
C17_DirBeforeFile ==
    \A r \in Req :
        /\ ~(OwnDirs(r) # {} /\ OwnTmpFiles(r) # {})
        /\ pc[r] = "exitdir" /\ exc[r] = NoExc =>
              audio_data[r] = dirs[temp_dir[r]].files[<<vid[r], "wav">>]
        /\ pc[r] \in {"create", "write"} => OwnDirs(r) = {} /\ audio_data[r] = RemoteAudio(vid[r])
        /\ pc[r] \in {"transcribe", "drain", "unlink"} =>
              tmpFiles[tmp_name[r]].data = RemoteAudio(vid[r])

C17_Witness ==
    \E r \in Req :
        /\ pc[r] = "transcribe" /\ vid[r] = "xyz"
        /\ temp_dir[r] # None /\ OwnDirs(r) = {}
        /\ tmpFiles[tmp_name[r]].data = <<"hola", "sil", "mundo">>
====
